---- MODULE Spec2Model ----
(***************************************************************************)
(* Memory layout of the ESP32 as fixed by soc/espressif/esp32/memory.h.    *)
(*                                                                         *)
(* The header is a set of object-like and function-like macros over the    *)
(* device-tree bank table (sram0, sram1, sram2) and the Kconfig symbols.   *)
(* Every macro is an operator of the same name over a bank table b and a   *)
(* configuration c; "Resolve" is one evaluation of the whole header, as    *)
(* the linker script does when it includes it.  The macros are integer     *)
(* expressions; all values of the model stay far below 2^31, so no         *)
(* evaluation wraps except where a subtraction goes below zero, and that   *)
(* is kept as the negative number a signed evaluation gives.               *)
(***************************************************************************)
EXTENDS Integers, FiniteSets, TLC

VARIABLES banks, cfg, pc, layout, addr_in, addr_out

vars == <<banks, cfg, pc, layout, addr_in, addr_out>>

(***************************************************************************)
(* Bounds of the model.                                                    *)
(***************************************************************************)
\* bank tables 0..MaxBankVariant: 0 is the ESP32, the others shrink the banks
MaxBankVariant == 1
\* CONFIG_ESP32_MCUBOOT_IRAM ranges over 16 KiB * (1..MaxLoaderUnits)
MaxLoaderUnits == 3
\* CONFIG_ESP32_SRAM1_HEAP_SIZE ranges over 32 KiB * (0..MaxHeapUnits)
MaxHeapUnits == 4
\* CONFIG_ESP_APPCPU_{IRAM,DRAM}_SIZE range over 64 KiB * (0..MaxAppcpuUnits)
MaxAppcpuUnits == 2
\* translated addresses are probed at MaxProbe + 1 evenly spaced offsets
MaxProbe == 2

KiB(n) == n * 1024

(***************************************************************************)
(* Inputs: the device-tree bank table and the Kconfig symbols.             *)
(***************************************************************************)
\* DT_REG_ADDR / DT_REG_SIZE of sram0, sram1, sram2.  Variant 0 is the chip
\* described in the header comment; the other variants move and shrink the
\* banks, keeping sram2 directly below sram1 on the data bus.
BankTable(v) ==
    [ sram0 |-> [start |-> 1074200576 + v * KiB(64), size |-> KiB(192) - v * KiB(32)],
      sram1 |-> [start |-> 1073610752,               size |-> KiB(128) - v * KiB(16)],
      sram2 |-> [start |-> 1073405952 + v * KiB(8),  size |-> KiB(200) - v * KiB(8)] ]

BankTables == { BankTable(v) : v \in 0..MaxBankVariant }

SRAM0_START(b) == b.sram0.start
SRAM0_SIZE(b)  == b.sram0.size
SRAM1_START(b) == b.sram1.start
SRAM1_SIZE(b)  == b.sram1.size
SRAM2_START(b) == b.sram2.start
SRAM2_SIZE(b)  == b.sram2.size

\* 0xdb5c, the Bluetooth controller's reservation at the start of SRAM2
BT_RESERVE_DRAM_BT == 56156

LoaderSizes(b) == { KiB(16) * k : k \in 1..MaxLoaderUnits } \cup { SRAM0_SIZE(b) - KiB(32) }
HeapSizes      == { KiB(32) * k : k \in 0..MaxHeapUnits }
BtSizes(b)     == { 0, BT_RESERVE_DRAM_BT, SRAM2_SIZE(b) - KiB(8) }
AppcpuSizes    == { KiB(64) * k : k \in 0..MaxAppcpuUnits }

\* The Kconfig symbols the header reads.  A symbol that is only read inside
\* an #if branch is 0 when the branch is not taken.
Configs(b) ==
    { c \in [ SOC_ENABLE_APPCPU     : BOOLEAN,
              SOC_ESP32_APPCPU      : BOOLEAN,
              MCUBOOT               : BOOLEAN,
              BOOTLOADER_MCUBOOT    : BOOLEAN,
              ESP32_MCUBOOT_IRAM    : LoaderSizes(b) \cup {0},
              ESP32_SRAM1_HEAP_SIZE : HeapSizes,
              ESP32_BT_RESERVE_DRAM : BtSizes(b),
              ESP_APPCPU_IRAM_SIZE  : AppcpuSizes,
              ESP_APPCPU_DRAM_SIZE  : AppcpuSizes ] :
        /\ ~(c.SOC_ENABLE_APPCPU /\ c.SOC_ESP32_APPCPU)
        /\ ~(c.MCUBOOT /\ c.BOOTLOADER_MCUBOOT)
        /\ (c.MCUBOOT \/ c.BOOTLOADER_MCUBOOT) <=> (c.ESP32_MCUBOOT_IRAM # 0)
        /\ ~(c.SOC_ENABLE_APPCPU \/ c.SOC_ESP32_APPCPU)
              => (c.ESP_APPCPU_IRAM_SIZE = 0 /\ c.ESP_APPCPU_DRAM_SIZE = 0) }

\* #if defined(CONFIG_SOC_ENABLE_APPCPU) || defined(CONFIG_SOC_ESP32_APPCPU)
AppcpuDefined(c)  == c.SOC_ENABLE_APPCPU \/ c.SOC_ESP32_APPCPU
\* #if defined(CONFIG_MCUBOOT) || defined(CONFIG_BOOTLOADER_MCUBOOT)
McubootDefined(c) == c.MCUBOOT \/ c.BOOTLOADER_MCUBOOT

(***************************************************************************)
(* External memory cache.                                                  *)
(***************************************************************************)
CACHE_START(b)        == SRAM0_START(b)
CACHE_SIZE_SINGLE_CPU == 32768
CACHE_SIZE_DUAL_CPU   == 65536
\* mutant: 32 KiB per active CPU, the branches the other way round
CACHE_SIZE_per_active_cpu(c) ==
    IF AppcpuDefined(c) THEN CACHE_SIZE_DUAL_CPU ELSE CACHE_SIZE_SINGLE_CPU
CACHE_SIZE(c) ==
    IF AppcpuDefined(c) THEN CACHE_SIZE_SINGLE_CPU ELSE CACHE_SIZE_DUAL_CPU

(***************************************************************************)
(* 2nd stage bootloader.                                                   *)
(***************************************************************************)
BOOTLOADER_IRAM_LOADER_START(b) == SRAM0_START(b) + CACHE_SIZE_SINGLE_CPU
BOOTLOADER_IRAM_LOADER_SIZE(c)  == c.ESP32_MCUBOOT_IRAM
BOOTLOADER_IRAM_RESERVED(c) ==
    IF McubootDefined(c)
    THEN CACHE_SIZE_SINGLE_CPU + BOOTLOADER_IRAM_LOADER_SIZE(c)
    ELSE 0
BOOTLOADER_IRAM_START(b, c) ==
    BOOTLOADER_IRAM_LOADER_START(b) + BOOTLOADER_IRAM_LOADER_SIZE(c)
BOOTLOADER_IRAM_SIZE(b, c) == SRAM0_SIZE(b) - BOOTLOADER_IRAM_RESERVED(c)

(***************************************************************************)
(* Application.                                                            *)
(***************************************************************************)
SRAM1_RESERVED     == 32768
SRAM1_DRAM_SIZE(c) == c.ESP32_SRAM1_HEAP_SIZE
\* mutant: the 32 KiB reserved at the start of SRAM1 are not taken off
SRAM1_IRAM_SIZE_no_reserved(b, c) == SRAM1_SIZE(b) - c.ESP32_SRAM1_HEAP_SIZE
SRAM1_IRAM_SIZE(b, c) == SRAM1_SIZE(b) - SRAM1_RESERVED - c.ESP32_SRAM1_HEAP_SIZE

\* mutant: the loader's reservation is ignored
IRAM_RESERVED_cache_only(c) == CACHE_SIZE(c)
\* mutant: the comparison the wrong way round, the smaller reservation wins
IRAM_RESERVED_smaller(c) ==
    IF CACHE_SIZE(c) < BOOTLOADER_IRAM_RESERVED(c)
    THEN CACHE_SIZE(c)
    ELSE BOOTLOADER_IRAM_RESERVED(c)
IRAM_RESERVED(c) ==
    IF CACHE_SIZE(c) > BOOTLOADER_IRAM_RESERVED(c)
    THEN CACHE_SIZE(c)
    ELSE BOOTLOADER_IRAM_RESERVED(c)

IRAM_START(b, c) == SRAM0_START(b) + IRAM_RESERVED(c)
IRAM_SIZE(b, c)  == SRAM0_SIZE(b) - IRAM_RESERVED(c) + SRAM1_IRAM_SIZE(b, c)

DRAM_RESERVED(c) == 8192 + c.ESP32_BT_RESERVE_DRAM
DRAM_START(b, c) == SRAM2_START(b) + DRAM_RESERVED(c)
DRAM_SIZE(b, c)  == SRAM2_SIZE(b) - DRAM_RESERVED(c)

\* mutant: the heap starts at the start of SRAM1
HEAP_START_no_reserved(b) == SRAM1_START(b)
HEAP_START(b) == SRAM1_START(b) + SRAM1_RESERVED
HEAP_SIZE(c)  == SRAM1_DRAM_SIZE(c)

(***************************************************************************)
(* "Pro" and "App" CPU memory.                                             *)
(***************************************************************************)
APPCPU_IRAM_SIZE(c) == IF AppcpuDefined(c) THEN c.ESP_APPCPU_IRAM_SIZE ELSE 0
APPCPU_DRAM_SIZE(c) == IF AppcpuDefined(c) THEN c.ESP_APPCPU_DRAM_SIZE ELSE 0
\* mutant: the App CPU's IRAM is carved from the head of the pool
APPCPU_IRAM_START_at_head(b, c) == IRAM_START(b, c)
APPCPU_IRAM_START(b, c) == IRAM_START(b, c) + IRAM_SIZE(b, c) - APPCPU_IRAM_SIZE(c)
APPCPU_DRAM_START(b, c) == DRAM_START(b, c) + DRAM_SIZE(b, c) - APPCPU_DRAM_SIZE(c)

PROCPU_IRAM_START(b, c) == IRAM_START(b, c)
PROCPU_IRAM_SIZE(b, c)  == IRAM_SIZE(b, c) - APPCPU_IRAM_SIZE(c)
\* mutant: the Pro CPU's DRAM follows the App CPU's
PROCPU_DRAM_START_after_appcpu(b, c) == DRAM_START(b, c) + APPCPU_DRAM_SIZE(c)
PROCPU_DRAM_START(b, c) == DRAM_START(b, c)
PROCPU_DRAM_SIZE(b, c)  == DRAM_SIZE(b, c) - APPCPU_DRAM_SIZE(c)

(***************************************************************************)
(* IRAM <-> DRAM address conversion in SRAM1.                              *)
(***************************************************************************)
SRAM1_IRAM_START(b) == SRAM0_START(b) + SRAM0_SIZE(b)
SRAM1_DRAM_START(b) == SRAM1_START(b)

\* mutant: the offset is kept, not reversed
SRAM1_IRAM_DRAM_CALC_not_reversed(b, addr_iram) ==
    (addr_iram - SRAM1_IRAM_START(b)) + SRAM1_DRAM_START(b)
SRAM1_IRAM_DRAM_CALC(b, addr_iram) ==
    SRAM1_SIZE(b) - (addr_iram - SRAM1_IRAM_START(b)) + SRAM1_DRAM_START(b)
\* mutant: reversal of byte indices, one less than the reversal of boundaries
SRAM1_DRAM_IRAM_CALC_off_by_one(b, addr_dram) ==
    SRAM1_SIZE(b) - 1 - (addr_dram - SRAM1_DRAM_START(b)) + SRAM1_IRAM_START(b)
SRAM1_DRAM_IRAM_CALC(b, addr_dram) ==
    SRAM1_SIZE(b) - (addr_dram - SRAM1_DRAM_START(b)) + SRAM1_IRAM_START(b)

(***************************************************************************)
(* One evaluation of the header: every macro that is defined under the     *)
(* configuration, by name.  The BOOTLOADER_IRAM_LOADER_* and               *)
(* BOOTLOADER_IRAM_START/SIZE macros exist only inside the MCUboot #if.    *)
(***************************************************************************)
LoaderMacros(b, c) ==
    [ BOOTLOADER_IRAM_LOADER_START |-> BOOTLOADER_IRAM_LOADER_START(b),
      BOOTLOADER_IRAM_LOADER_SIZE  |-> BOOTLOADER_IRAM_LOADER_SIZE(c),
      BOOTLOADER_IRAM_START        |-> BOOTLOADER_IRAM_START(b, c),
      BOOTLOADER_IRAM_SIZE         |-> BOOTLOADER_IRAM_SIZE(b, c) ]

CommonMacros(b, c) ==
    [ CACHE_START              |-> CACHE_START(b),
      CACHE_SIZE               |-> CACHE_SIZE(c),
      BOOTLOADER_IRAM_RESERVED |-> BOOTLOADER_IRAM_RESERVED(c),
      SRAM1_IRAM_SIZE          |-> SRAM1_IRAM_SIZE(b, c),
      IRAM_RESERVED            |-> IRAM_RESERVED(c),
      IRAM_START               |-> IRAM_START(b, c),
      IRAM_SIZE                |-> IRAM_SIZE(b, c),
      DRAM_RESERVED            |-> DRAM_RESERVED(c),
      DRAM_START               |-> DRAM_START(b, c),
      DRAM_SIZE                |-> DRAM_SIZE(b, c),
      HEAP_START               |-> HEAP_START(b),
      HEAP_SIZE                |-> HEAP_SIZE(c),
      APPCPU_IRAM_START        |-> APPCPU_IRAM_START(b, c),
      APPCPU_IRAM_SIZE         |-> APPCPU_IRAM_SIZE(c),
      APPCPU_DRAM_START        |-> APPCPU_DRAM_START(b, c),
      APPCPU_DRAM_SIZE         |-> APPCPU_DRAM_SIZE(c),
      PROCPU_IRAM_START        |-> PROCPU_IRAM_START(b, c),
      PROCPU_IRAM_SIZE         |-> PROCPU_IRAM_SIZE(b, c),
      PROCPU_DRAM_START        |-> PROCPU_DRAM_START(b, c),
      PROCPU_DRAM_SIZE         |-> PROCPU_DRAM_SIZE(b, c) ]

Layout(b, c) ==
    IF McubootDefined(c) THEN CommonMacros(b, c) @@ LoaderMacros(b, c)
                         ELSE CommonMacros(b, c)

NoLayout == [ x \in {} |-> 0 ]

(***************************************************************************)
(* State machine.                                                          *)
(***************************************************************************)
ProbeOffsets(b) ==
    { k * (SRAM1_SIZE(b) \div MaxProbe) : k \in 0..MaxProbe }
        \cup { 1, SRAM1_SIZE(b) - 1, SRAM1_SIZE(b) }

Init ==
    /\ banks \in BankTables
    /\ cfg \in Configs(banks)
    /\ pc = "config"
    /\ layout = NoLayout
    /\ addr_in = 0
    /\ addr_out = 0

\* the header is evaluated under the configuration
Resolve ==
    /\ pc = "config"
    /\ layout' = Layout(banks, cfg)
    /\ pc' = "resolved"
    /\ UNCHANGED <<banks, cfg, addr_in, addr_out>>

\* the linker script converts an instruction-bus address of SRAM1
IramToDram ==
    /\ pc = "resolved"
    /\ \E off \in ProbeOffsets(banks) :
          /\ addr_in' = SRAM1_IRAM_START(banks) + off
          /\ addr_out' = SRAM1_IRAM_DRAM_CALC(banks, SRAM1_IRAM_START(banks) + off)
    /\ pc' = "i2d"
    /\ UNCHANGED <<banks, cfg, layout>>

\* ... and converts the result back
IramToDramToIram ==
    /\ pc = "i2d"
    /\ addr_out' = SRAM1_DRAM_IRAM_CALC(banks, addr_out)
    /\ pc' = "i2d2i"
    /\ UNCHANGED <<banks, cfg, layout, addr_in>>

\* the linker script converts a data-bus address of SRAM1
DramToIram ==
    /\ pc = "resolved"
    /\ \E off \in ProbeOffsets(banks) :
          /\ addr_in' = SRAM1_DRAM_START(banks) + off
          /\ addr_out' = SRAM1_DRAM_IRAM_CALC(banks, SRAM1_DRAM_START(banks) + off)
    /\ pc' = "d2i"
    /\ UNCHANGED <<banks, cfg, layout>>

\* ... and converts the result back
DramToIramToDram ==
    /\ pc = "d2i"
    /\ addr_out' = SRAM1_IRAM_DRAM_CALC(banks, addr_out)
    /\ pc' = "d2i2d"
    /\ UNCHANGED <<banks, cfg, layout, addr_in>>

Next ==
    \/ Resolve
    \/ IramToDram
    \/ IramToDramToIram
    \/ DramToIram
    \/ DramToIramToDram

Spec == Init /\ [][Next]_vars

\* the header has been evaluated; the layout is not touched afterwards
Resolved == pc # "config"
\* ... and this is the state the evaluation ended in
JustResolved == pc = "resolved"

TypeOK ==
    /\ banks \in BankTables
    /\ cfg \in Configs(banks)
    /\ pc \in {"config", "resolved", "i2d", "i2d2i", "d2i", "d2i2d"}

(***************************************************************************)
(* Regions of a resolved layout and the fit conditions of a configuration. *)
(***************************************************************************)
Max(x, y) == IF x > y THEN x ELSE y

Region(n, base, size) == [name |-> n, base |-> base, size |-> size]
End(r) == r.base + r.size

\* half-open intervals [base, base + size); a region of size <= 0 is empty
Overlap(r, s) ==
    /\ r.size > 0
    /\ s.size > 0
    /\ r.base < End(s)
    /\ s.base < End(r)

PairwiseDisjoint(R) == \A r \in R : \A s \in R : (r.name # s.name) => ~Overlap(r, s)

HasLoader(l) == "BOOTLOADER_IRAM_LOADER_START" \in DOMAIN l

cache(l)          == Region("cache", l.CACHE_START, l.CACHE_SIZE)
loader_critical(l) ==
    Region("loader_critical", l.BOOTLOADER_IRAM_LOADER_START, l.BOOTLOADER_IRAM_LOADER_SIZE)
loader_reclaimable(l) ==
    Region("loader_reclaimable", l.BOOTLOADER_IRAM_START, l.BOOTLOADER_IRAM_SIZE)
iram(l)           == Region("iram", l.IRAM_START, l.IRAM_SIZE)
iram_primary(l)   == Region("iram_primary", l.PROCPU_IRAM_START, l.PROCPU_IRAM_SIZE)
iram_secondary(l) == Region("iram_secondary", l.APPCPU_IRAM_START, l.APPCPU_IRAM_SIZE)
dram(l)           == Region("dram", l.DRAM_START, l.DRAM_SIZE)
dram_primary(l)   == Region("dram_primary", l.PROCPU_DRAM_START, l.PROCPU_DRAM_SIZE)
dram_secondary(l) == Region("dram_secondary", l.APPCPU_DRAM_START, l.APPCPU_DRAM_SIZE)
heap(l)           == Region("heap", l.HEAP_START, l.HEAP_SIZE)

LoaderRegions(l) == IF HasLoader(l) THEN {loader_critical(l), loader_reclaimable(l)} ELSE {}

\* the regions a layout emits on each bus
InstructionRegions(l) == {cache(l), iram_primary(l), iram_secondary(l)} \cup LoaderRegions(l)
DataRegions(l)        == {heap(l), dram_primary(l), dram_secondary(l)}

\* the named reserved gaps
bank0_head(b, l) == Region("bank0_head", b.sram0.start, l.IRAM_RESERVED)
\* the part of the Bank0 head reservation that is not cache
bank0_head_gap(l) == Region("bank0_head", End(cache(l)), l.IRAM_RESERVED - l.CACHE_SIZE)
bank1_head(b)    == Region("bank1_head", b.sram1.start, KiB(32))
bank2_head(b, l) == Region("bank2_head", b.sram2.start, l.DRAM_RESERVED)

\* the other bus's view of a region of SRAM1: both conversions reverse the
\* order, so the image of [base, end) is [conv(end), conv(base))
IramView(b, r) ==
    Region(r.name, SRAM1_DRAM_IRAM_CALC(b, End(r)), r.size)
DramView(b, r) ==
    Region(r.name, SRAM1_IRAM_DRAM_CALC(b, End(r)), r.size)

\* the part of the IRAM pool that lies in SRAM1, on the instruction bus
iram_bank1(b, l) ==
    Region("iram_bank1", b.sram0.start + b.sram0.size,
           End(iram(l)) - (b.sram0.start + b.sram0.size))

\* every reservation fits its bank (the error conditions of a resolution)
Fits(b, c) ==
    /\ c.ESP32_SRAM1_HEAP_SIZE + KiB(32) <= b.sram1.size
    /\ (c.MCUBOOT \/ c.BOOTLOADER_MCUBOOT) => c.ESP32_MCUBOOT_IRAM < b.sram0.size - KiB(32)
    /\ KiB(64) <= b.sram0.size
    /\ KiB(8) + c.ESP32_BT_RESERVE_DRAM < b.sram2.size
    /\ (c.SOC_ENABLE_APPCPU \/ c.SOC_ESP32_APPCPU) =>
          /\ c.ESP_APPCPU_IRAM_SIZE <= IRAM_SIZE(b, c)
          /\ c.ESP_APPCPU_DRAM_SIZE <= DRAM_SIZE(b, c)

\* P tiles [lo, hi): every address of [lo, hi) lies in exactly one piece and
\* no piece leaves [lo, hi).  The number of pieces covering an address changes
\* only at lo and at a piece's base or end, so these addresses decide it.
Covering(P, a) == { p \in P : p.base <= a /\ a < End(p) }
Tiles(P, lo, hi) ==
    /\ \A p \in P : p.size >= 0 /\ (p.size > 0 => (lo <= p.base /\ End(p) <= hi))
    /\ \A a \in {lo} \cup { p.base : p \in P } \cup { End(p) : p \in P } :
          (lo <= a /\ a < hi) => Cardinality(Covering(P, a)) = 1

I0 == banks.sram0.start + banks.sram0.size
D0 == banks.sram1.start
S  == banks.sram1.size

(***************************************************************************)
(* C1.  With a second-stage loader present (single or dual core, any       *)
(* loader size), the critical loader region                                *)
(* [SRAM0_START + 0x8000, SRAM0_START + 0x8000 + loader size) ends at or   *)
(* below IRAM_START and shares no address with the application's           *)
(* instruction memory [IRAM_START, IRAM_START + IRAM_SIZE).                *)
(***************************************************************************)
C1_LoaderCriticalOutsideIram ==
    (Resolved /\ McubootDefined(cfg)) =>
        /\ layout.BOOTLOADER_IRAM_LOADER_START = banks.sram0.start + 32768
        /\ layout.BOOTLOADER_IRAM_LOADER_SIZE = cfg.ESP32_MCUBOOT_IRAM
        /\ End(loader_critical(layout)) <= layout.IRAM_START
        /\ ~Overlap(loader_critical(layout), iram(layout))

\* a dual-core build with a loader: the cache alone would not protect it
C1_Witness ==
    /\ pc = "resolved"
    /\ McubootDefined(cfg)
    /\ AppcpuDefined(cfg)
    /\ Fits(banks, cfg)
    /\ cfg.ESP32_MCUBOOT_IRAM = KiB(16)
    /\ layout.IRAM_SIZE > 0
    /\ layout.IRAM_START = End(loader_critical(layout))

(***************************************************************************)
(* C2 as stated.  In every resolved layout no two emitted regions on the   *)
(* same bus overlap: cache, loader_critical, loader_reclaimable,           *)
(* iram_primary and iram_secondary are pairwise disjoint, and heap,        *)
(* dram_primary and dram_secondary are pairwise disjoint.                  *)
(***************************************************************************)
C2_Original ==
    (Resolved /\ Fits(banks, cfg)) =>
        /\ PairwiseDisjoint(InstructionRegions(layout))
        /\ PairwiseDisjoint(DataRegions(layout))

(***************************************************************************)
(* C2 as amended.  In every resolved layout cache, iram_primary and        *)
(* iram_secondary are pairwise disjoint, loader_critical is disjoint from  *)
(* loader_reclaimable, iram_primary and iram_secondary, and heap,          *)
(* dram_primary and dram_secondary are pairwise disjoint.  Nothing is      *)
(* claimed of loader_reclaimable against cache and the IRAM regions, nor   *)
(* of loader_critical against cache: the header lets them overlap.         *)
(***************************************************************************)
C2_Amended ==
    (Resolved /\ Fits(banks, cfg)) =>
        /\ PairwiseDisjoint({cache(layout), iram_primary(layout), iram_secondary(layout)})
        /\ PairwiseDisjoint(DataRegions(layout))
        /\ HasLoader(layout) =>
              /\ PairwiseDisjoint({loader_critical(layout), loader_reclaimable(layout)})
              /\ PairwiseDisjoint({loader_critical(layout), iram_primary(layout),
                                   iram_secondary(layout)})

\* both cores and the loader in use, every region non-empty
C2_Witness ==
    /\ pc = "resolved"
    /\ Fits(banks, cfg)
    /\ HasLoader(layout)
    /\ AppcpuDefined(cfg)
    /\ layout.APPCPU_IRAM_SIZE > 0
    /\ layout.APPCPU_DRAM_SIZE > 0
    /\ layout.PROCPU_IRAM_SIZE > 0
    /\ layout.PROCPU_DRAM_SIZE > 0
    /\ layout.HEAP_SIZE > 0
    /\ cfg.ESP32_BT_RESERVE_DRAM > 0

\* the macros that are sizes of regions
SizeMacros ==
    {"CACHE_SIZE", "SRAM1_IRAM_SIZE", "IRAM_SIZE", "DRAM_SIZE", "HEAP_SIZE",
     "APPCPU_IRAM_SIZE", "APPCPU_DRAM_SIZE", "PROCPU_IRAM_SIZE", "PROCPU_DRAM_SIZE",
     "BOOTLOADER_IRAM_LOADER_SIZE", "BOOTLOADER_IRAM_SIZE"}

(***************************************************************************)
(* C3.  A configuration in which a reservation does not fit its bank       *)
(* yields no region at all, and no produced layout has a region of         *)
(* negative size.                                                          *)
(***************************************************************************)
C3_NoLayoutUnlessFits ==
    /\ ~Fits(banks, cfg) => layout = NoLayout
    /\ \A m \in SizeMacros \cap DOMAIN layout : layout[m] >= 0

\* what the loader reserves at the head of Bank0
ReservedAmount(c) ==
    IF c.MCUBOOT \/ c.BOOTLOADER_MCUBOOT THEN KiB(32) + c.ESP32_MCUBOOT_IRAM ELSE 0

SameButAppcpu(c) ==
    { [c EXCEPT !.SOC_ENABLE_APPCPU = e, !.SOC_ESP32_APPCPU = a,
                !.ESP_APPCPU_IRAM_SIZE = i, !.ESP_APPCPU_DRAM_SIZE = d] :
        <<e, a, i, d>> \in { t \in BOOLEAN \X BOOLEAN \X AppcpuSizes \X AppcpuSizes :
                             /\ ~(t[1] /\ t[2])
                             /\ ~(t[1] \/ t[2]) => (t[3] = 0 /\ t[4] = 0) } }

OtherEnablement(c) == { c2 \in SameButAppcpu(c) : AppcpuDefined(c2) # AppcpuDefined(c) }
SameEnablement(c)  == { c2 \in SameButAppcpu(c) : AppcpuDefined(c2) = AppcpuDefined(c) }

C6_ConversionsAreInverses ==
    /\ pc = "i2d2i" => addr_out = addr_in
    /\ pc = "d2i2d" => addr_out = addr_in

\* a round trip from an address strictly inside SRAM1 on the instruction bus
C6_Witness ==
    /\ pc = "i2d2i"
    /\ addr_in > banks.sram0.start + banks.sram0.size
    /\ addr_in < banks.sram0.start + banks.sram0.size + banks.sram1.size
    /\ addr_out = addr_in

(***************************************************************************)
(* C7.  At the boundaries of SRAM1, with I0 = Bank0.base + Bank0.size,     *)
(* D0 = Bank1.base and S = Bank1.size: I0 converts to D0 + S and I0 + S    *)
(* to D0, and D0 converts to I0 + S and D0 + S to I0.                      *)
(***************************************************************************)
C7_BoundaryConversions ==
    /\ (pc = "i2d" /\ addr_in = I0)     => addr_out = D0 + S
    /\ (pc = "i2d" /\ addr_in = I0 + S) => addr_out = D0
    /\ (pc = "d2i" /\ addr_in = D0)     => addr_out = I0 + S
    /\ (pc = "d2i" /\ addr_in = D0 + S) => addr_out = I0

\* the upper boundary on the instruction bus, on a bank table other than the ESP32's
C7_Witness ==
    /\ pc = "i2d"
    /\ banks # BankTable(0)
    /\ addr_in = I0 + S
    /\ addr_out = D0

Bank1OnInstructionBus(b, l) == { IramView(b, heap(l)), IramView(b, bank1_head(b)) }
Bank1OnDataBus(b, l)        == { bank1_head(b), heap(l), DramView(b, iram_bank1(b, l)) }

(***************************************************************************)
(* C9 as stated.  On each bus the emitted regions together with the named  *)
(* reserved gaps (Bank0 head reservation, 32 KiB Bank1 head, Bank2 head)   *)
(* cover the banks of that bus with every byte in exactly one of them.     *)
(* SRAM1 is on both buses, so the pieces of each bus include the other     *)
(* bus's pieces of SRAM1, converted; cache is an emitted region, so the    *)
(* gap at the head of Bank0 is what the head reservation has beyond it.    *)
(***************************************************************************)
C9_Original ==
    (JustResolved /\ Fits(banks, cfg)) =>
        /\ Tiles(InstructionRegions(layout) \cup {bank0_head_gap(layout)}
                     \cup Bank1OnInstructionBus(banks, layout),
                 banks.sram0.start, I0 + S)
        /\ Tiles({bank2_head(banks, layout), dram_primary(layout), dram_secondary(layout)},
                 banks.sram2.start, banks.sram2.start + banks.sram2.size)
        /\ Tiles(Bank1OnDataBus(banks, layout), D0, D0 + S)

(***************************************************************************)
(* C9 as amended.  In every resolved layout the Bank0 head reservation,    *)
(* iram_primary, iram_secondary and the instruction-bus images of heap     *)
(* and of the 32 KiB Bank1 head tile [Bank0.base, Bank0.end + Bank1.size); *)
(* the Bank2 head, dram_primary and dram_secondary tile Bank2; the Bank1   *)
(* head, heap and the data-bus image of the IRAM pool's part of Bank1      *)
(* tile Bank1; primary and secondary regions tile the IRAM pool and the    *)
(* DRAM region.  cache and the loader regions are not further pieces:      *)
(* cache and loader_critical lie inside the Bank0 head reservation and     *)
(* loader_reclaimable lies over Bank0 from the loader's end on.            *)
(***************************************************************************)
C9_Amended ==
    (JustResolved /\ Fits(banks, cfg)) =>
        /\ Tiles({bank0_head(banks, layout), iram_primary(layout), iram_secondary(layout)}
                     \cup Bank1OnInstructionBus(banks, layout),
                 banks.sram0.start, I0 + S)
        /\ Tiles({bank2_head(banks, layout), dram_primary(layout), dram_secondary(layout)},
                 banks.sram2.start, banks.sram2.start + banks.sram2.size)
        /\ Tiles(Bank1OnDataBus(banks, layout), D0, D0 + S)
        /\ Tiles({iram_primary(layout), iram_secondary(layout)},
                 layout.IRAM_START, layout.IRAM_START + layout.IRAM_SIZE)
        /\ Tiles({dram_primary(layout), dram_secondary(layout)},
                 layout.DRAM_START, layout.DRAM_START + layout.DRAM_SIZE)
        /\ cache(layout).base = bank0_head(banks, layout).base
        /\ End(cache(layout)) <= End(bank0_head(banks, layout))
        /\ HasLoader(layout) =>
              /\ bank0_head(banks, layout).base <= loader_critical(layout).base
              /\ End(loader_critical(layout)) <= End(bank0_head(banks, layout))
              /\ End(loader_reclaimable(layout)) = I0

\* a layout in which every piece is non-empty
C9_Witness ==
    /\ pc = "resolved"
    /\ Fits(banks, cfg)
    /\ HasLoader(layout)
    /\ layout.APPCPU_IRAM_SIZE > 0
    /\ layout.APPCPU_DRAM_SIZE > 0
    /\ layout.PROCPU_IRAM_SIZE > 0
    /\ layout.PROCPU_DRAM_SIZE > 0
    /\ layout.HEAP_SIZE > 0
    /\ layout.SRAM1_IRAM_SIZE > 0
    /\ cfg.ESP32_BT_RESERVE_DRAM = 56156

(***************************************************************************)
(* C10.  For every valid configuration the two bus views of SRAM1 agree    *)
(* on where the heap ends and the IRAM extension begins:                   *)
(* SRAM1_DRAM_IRAM_CALC(HEAP_START + HEAP_SIZE) = IRAM_START + IRAM_SIZE   *)
(* and SRAM1_IRAM_DRAM_CALC(IRAM_START + IRAM_SIZE) = HEAP_START +         *)
(* HEAP_SIZE, and no instruction-bus address of the IRAM pool in SRAM1     *)
(* converts to an address of the heap or of the 32 KiB reserved head.      *)
(***************************************************************************)
C10_BusViewsAgree ==
    (Resolved /\ Fits(banks, cfg)) =>
        /\ SRAM1_DRAM_IRAM_CALC(banks, layout.HEAP_START + layout.HEAP_SIZE)
              = layout.IRAM_START + layout.IRAM_SIZE
        /\ SRAM1_IRAM_DRAM_CALC(banks, layout.IRAM_START + layout.IRAM_SIZE)
              = layout.HEAP_START + layout.HEAP_SIZE
        /\ layout.HEAP_START = D0 + KiB(32)
        /\ (pc = "i2d" /\ I0 <= addr_in /\ addr_in < layout.IRAM_START + layout.IRAM_SIZE)
              => /\ addr_out >= layout.HEAP_START + layout.HEAP_SIZE
                 /\ addr_out <= D0 + S

\* an address of the IRAM pool inside SRAM1 converted, with a non-empty heap
C10_Witness ==
    /\ pc = "i2d"
    /\ Fits(banks, cfg)
    /\ layout.HEAP_SIZE > 0
    /\ I0 < addr_in
    /\ addr_in < layout.IRAM_START + layout.IRAM_SIZE
    /\ addr_out > layout.HEAP_START + layout.HEAP_SIZE
====
